---- MODULE Spec2Model ----
(***************************************************************************)
(* Model of split_md_by_size.py: the record boundary detector              *)
(* (find_record_starts), the record slicer (split_into_records), the       *)
(* greedy chunker (chunk_records_by_size) and the part writer of main;     *)
(* and of the message loop of export_telegram_topic.py.                    *)
(*                                                                         *)
(* Text is a sequence of Unicode code points.  Offsets are 0-based, as in  *)
(* Python; At(s, off) reads the character at a Python offset.              *)
(***************************************************************************)
EXTENDS Integers, Sequences, FiniteSets, TLC

VARIABLES md, max_bytes, starts, records, chunks, cur, cur_bytes, ri,
          lines, li, part, part_b, files, manifest, wi, pc,
          cur_from, part_from, origin, steps,
          download_media, messages, xi, xpc, media_err, index, jsonl, md_out,
          exported

\* the state of the exporter's message loop (export_telegram_topic.py)
exportVars == <<download_media, messages, xi, xpc, media_err, index, jsonl,
                md_out, exported>>

vars == <<md, max_bytes, starts, records, chunks, cur, cur_bytes, ri,
          lines, li, part, part_b, files, manifest, wi, pc,
          cur_from, part_from, origin, steps, exportVars>>

(***************************************************************************)
(* Bounds of the model.                                                    *)
(***************************************************************************)
MaxPieces == 5
MaxDocBudget == 10
MaxBudget == 4
MaxRecs == 3
MaxTotalLen == 5
MaxMessages == 3

(***************************************************************************)
(* Characters (code points) and the literals of the source.                *)
(***************************************************************************)
NL == 10
SP == 32
DASH == 45
COLON == 58
LETTER_D == 100
LETTER_I == 105
\* a character of two UTF-8 bytes, U+00E9: text whose byte length differs
\* from its character count
E_ACUTE == 233

\* "---\n", the delimiter line of the pattern and of startswith
DELIM == <<DASH, DASH, DASH, NL>>
\* "id:", the required first field
IDFIELD == <<LETTER_I, LETTER_D, COLON>>

\* \s of a Python 3 str pattern, restricted to the code points below 256
Whitespace == {9, 10, 11, 12, 13, 28, 29, 30, 31, 32, 133, 160}

\* the line boundaries of str.splitlines ("\r\n" is handled in LineEnd)
LineBreaks == {10, 11, 12, 13, 28, 29, 30, 133, 8232, 8233}

\* --max-mb defaults to 1.0, so max_bytes defaults to int(1.0 * 1024 * 1024)
DefaultMaxBytes == 1048576

(***************************************************************************)
(* String helpers with Python's semantics.                                 *)
(***************************************************************************)
Min(a, b) == IF a < b THEN a ELSE b

At(s, off) == s[off + 1]

\* s[a:b] for 0 <= a, b
Slice(s, a, b) == SubSeq(s, a + 1, Min(b, Len(s)))

\* s.startswith(pat, off)
StartsWithAt(s, off, pat) ==
    /\ off + Len(pat) <= Len(s)
    /\ \A k \in 1..Len(pat) : s[off + k] = pat[k]

\* s.endswith("\n")
EndsWithNL(s) == Len(s) > 0 /\ s[Len(s)] = NL

\* number of bytes of one code point in UTF-8 (text is decoded text: it holds
\* no surrogate code points, which do not encode)
Utf8Width(c) == IF c < 128 THEN 1 ELSE IF c < 2048 THEN 2 ELSE IF c < 65536 THEN 3 ELSE 4

RECURSIVE utf8_len(_)
utf8_len(s) == IF s = <<>> THEN 0 ELSE Utf8Width(Head(s)) + utf8_len(Tail(s))

RECURSIVE Concat(_)
Concat(ss) == IF ss = <<>> THEN <<>> ELSE Head(ss) \o Concat(Tail(ss))

\* sorted(set(xs))
RECURSIVE SortedOfSet(_)
SortedOfSet(S) ==
    IF S = {} THEN <<>>
    ELSE LET m == CHOOSE x \in S : \A y \in S : x <= y
         IN <<m>> \o SortedOfSet(S \ {m})

SortedSet(xs) == SortedOfSet({xs[k] : k \in 1..Len(xs)})

(***************************************************************************)
(* str.splitlines(keepends=True)                                           *)
(***************************************************************************)
\* the position (1-based) of the last character of the line that holds
\* position k: its line break ("\r\n" counts as one), or the end of s
RECURSIVE LineEnd(_, _)
LineEnd(s, k) ==
    IF k >= Len(s) THEN Len(s)
    ELSE IF s[k] \in LineBreaks
         THEN IF s[k] = 13 /\ s[k + 1] = NL THEN k + 1 ELSE k
         ELSE LineEnd(s, k + 1)

\* the lines of s from position k on, line breaks kept
RECURSIVE SplitFrom(_, _)
SplitFrom(s, k) ==
    IF k > Len(s) THEN <<>>
    ELSE <<SubSeq(s, k, LineEnd(s, k))>> \o SplitFrom(s, LineEnd(s, k) + 1)

SplitLines(s) == SplitFrom(s, 1)

(***************************************************************************)
(* find_record_starts                                                      *)
(***************************************************************************)
\* re.match(r"(?m)^id:\s", t): anchored at the start of t
MatchIdWs(t) ==
    /\ Len(t) >= 4
    /\ SubSeq(t, 1, 3) = IDFIELD
    /\ t[4] \in Whitespace

\* the lookahead (?=id:\s) at offset off of s
LookaheadIdWs(s, off) ==
    /\ StartsWithAt(s, off, IDFIELD)
    /\ off + 3 < Len(s)
    /\ At(s, off + 3) \in Whitespace

\* number of consecutive "\n" of s from offset off on
RECURSIVE RunLen(_, _)
RunLen(s, off) ==
    IF off < Len(s) /\ At(s, off) = NL THEN 1 + RunLen(s, off + 1) ELSE 0

\* the lengths k that \n{2,} can take at offset off so that the rest of the
\* pattern, (---\n(?=id:\s)), matches behind it
NewlineCounts(s, off) ==
    {k \in 2..RunLen(s, off) :
        StartsWithAt(s, off + k, DELIM) /\ LookaheadIdWs(s, off + k + 4)}

\* the offsets at or after pos where the pattern matches
MatchOffsets(s, pos) ==
    {i \in pos..(Len(s) - 1) : NewlineCounts(s, i) # {}}

\* pat.finditer(md) from pos on: the m.start(1) of the successive leftmost,
\* greedy, non-overlapping matches
RECURSIVE FindIter(_, _)
FindIter(s, pos) ==
    IF MatchOffsets(s, pos) = {} THEN <<>>
    ELSE LET i == CHOOSE x \in MatchOffsets(s, pos) :
                      \A y \in MatchOffsets(s, pos) : x <= y
             K == NewlineCounts(s, i)
             k == CHOOSE x \in K : \A y \in K : x >= y
         IN <<i + k>> \o FindIter(s, i + k + 4)

\* variant: the test of the document's opening is left out
find_record_starts_NoFirst(s) == SortedSet(FindIter(s, 0))

find_record_starts(s) ==
    LET first == IF StartsWithAt(s, 0, DELIM) /\ MatchIdWs(Slice(s, 4, 80))
                 THEN <<0>> ELSE <<>>
    IN SortedSet(first \o FindIter(s, 0))

(***************************************************************************)
(* split_into_records                                                      *)
(***************************************************************************)
RecordsAt(s, sts) ==
    IF sts = <<>> THEN <<s>>
    ELSE [i \in 1..Len(sts) |->
            Slice(s, sts[i], IF i + 1 <= Len(sts) THEN sts[i + 1] ELSE Len(s))]

\* variant: no fallback when no start is found
split_into_records_NoFallback(s) ==
    LET sts == find_record_starts(s)
    IN [i \in 1..Len(sts) |->
          Slice(s, sts[i], IF i + 1 <= Len(sts) THEN sts[i + 1] ELSE Len(s))]

split_into_records(s) == RecordsAt(s, find_record_starts(s))

(***************************************************************************)
(* chunk_records_by_size: its nested push_current and the two branches of  *)
(* its loops, as functions of the local state.                             *)
(***************************************************************************)
\* variant: the accumulator is not cleared after a flush
push_current_NoReset(chs, c, cb) ==
    IF c # <<>>
    THEN [chunks |-> Append(chs, c), cur |-> c, cur_bytes |-> cb]
    ELSE [chunks |-> chs, cur |-> c, cur_bytes |-> cb]

\* push_current(): flush the accumulator if it is non-empty
push_current(chs, c, cb) ==
    IF c # <<>>
    THEN [chunks |-> Append(chs, c), cur |-> <<>>, cur_bytes |-> 0]
    ELSE [chunks |-> chs, cur |-> c, cur_bytes |-> cb]

\* variant: a record of exactly max_bytes counts as oversized
IsOversized_Geq(rec_b, mx) == rec_b >= mx

\* "if rec_b > max_bytes": the record must be split by lines
IsOversized(rec_b, mx) == rec_b > mx

\* variant: the accumulator is tested before the record is added to it
MustFlushCur_BeforeAdd(c, cb, rec_b, mx) == cb > mx /\ c # <<>>

\* variant: a chunk of exactly max_bytes is refused
MustFlushCur_Geq(c, cb, rec_b, mx) == cb + rec_b >= mx /\ c # <<>>

\* "if cur_bytes + rec_b > max_bytes and cur": flush before appending
MustFlushCur(c, cb, rec_b, mx) == cb + rec_b > mx /\ c # <<>>

\* variant: the "and part" test is left out
MustFlushPart_NoEmptyTest(p, pb, ln_b, mx) == pb + ln_b > mx

\* "if part_b + ln_b > max_bytes and part": flush the part before the line
MustFlushPart(p, pb, ln_b, mx) == pb + ln_b > mx /\ p # <<>>

\* variant: the part is written as it is
NormalizeNewline_None(content) == content

\* main: "if not content.endswith('\n'): content += '\n'"
NormalizeNewline(content) ==
    IF ~EndsWithNL(content) THEN Append(content, NL) ELSE content

(***************************************************************************)
(* Inputs.                                                                 *)
(***************************************************************************)
\* the record header the exporter writes: "---\nid: "
HEADER == DELIM \o IDFIELD \o <<SP>>

\* documents are built from these pieces
Pieces == {<<NL>>, HEADER, DELIM, IDFIELD, <<E_ACUTE>>}

SeqsUpTo(S, n) == UNION {[1..k -> S] : k \in 0..n}

Docs == {Concat(ps) : ps \in SeqsUpTo(Pieces, MaxPieces)}

DocBudgets == (-1..MaxDocBudget) \cup {DefaultMaxBytes}

\* records handed to chunk_records_by_size directly
\* every list of at most MaxRecs records of at most MaxTotalLen characters
\* in all: a text over RecChars, cut at any offsets (empty records included)
RecChars == {E_ACUTE, NL}

CutOffsets(n, len) ==
    {c \in [1..(n + 1) -> 0..len] :
        /\ c[1] = 0
        /\ c[n + 1] = len
        /\ \A k \in 1..n : c[k] <= c[k + 1]}

CutAt(s, c) == [k \in 1..(Len(c) - 1) |-> Slice(s, c[k], c[k + 1])]

RecSeqs ==
    {<<>>} \cup
    UNION {UNION {{CutAt(s, c) : c \in CutOffsets(n, Len(s))} : n \in 1..MaxRecs} :
             s \in SeqsUpTo(RecChars, MaxTotalLen)}

RecBudgets == -1..MaxBudget

(***************************************************************************)
(* State machine.  pc: "main" before split_into_records, "call" at the     *)
(* entry of chunk_records_by_size, "rec" at the head of its record loop,   *)
(* "line" at the head of its line loop, "returned" after its return (the   *)
(* part loop of main), "done" at the end of main.                          *)
(*                                                                         *)
(* origin, cur_from, part_from and steps are history variables: origin[k]  *)
(* names the records (or the lines of one record) that chunks[k] was built *)
(* from, steps counts the steps chunk_records_by_size has taken.           *)
(***************************************************************************)
Locals0 ==
    /\ chunks = <<>> /\ cur = <<>> /\ cur_bytes = 0 /\ ri = 1
    /\ lines = <<>> /\ li = 1 /\ part = <<>> /\ part_b = 0
    /\ files = <<>> /\ manifest = <<>> /\ wi = 1
    /\ cur_from = 0 /\ part_from = 0 /\ origin = <<>> /\ steps = 0

\* the exporter is not running
ExportOff ==
    /\ download_media = FALSE /\ messages = <<>> /\ xi = 0 /\ xpc = "off"
    /\ media_err = FALSE /\ index = {} /\ jsonl = <<>> /\ md_out = <<>>
    /\ exported = 0

\* main is run on a document
Init ==
    /\ ExportOff
    /\ md \in Docs
    /\ max_bytes \in DocBudgets
    /\ starts = <<>>
    /\ records = <<>>
    /\ pc = "main"
    /\ Locals0

\* chunk_records_by_size is called on a record list
InitRec ==
    /\ ExportOff
    /\ md = <<>>
    /\ max_bytes \in RecBudgets
    /\ starts = <<>>
    /\ records \in RecSeqs
    /\ pc = "call"
    /\ Locals0

\* main: records = split_into_records(md)
SplitIntoRecords ==
    /\ pc = "main"
    /\ UNCHANGED exportVars
    /\ UNCHANGED steps
    /\ starts' = find_record_starts(md)
    /\ records' = split_into_records(md)
    /\ pc' = "call"
    /\ UNCHANGED <<md, max_bytes, chunks, cur, cur_bytes, ri, lines, li, part,
                   part_b, files, manifest, wi, cur_from, part_from, origin>>

\* chunk_records_by_size: chunks = []; cur = ""; cur_bytes = 0
EnterChunker ==
    /\ pc = "call"
    /\ UNCHANGED exportVars
    /\ steps' = steps + 1
    /\ chunks' = <<>>
    /\ cur' = <<>>
    /\ cur_bytes' = 0
    /\ ri' = 1
    /\ pc' = "rec"
    /\ cur_from' = 0
    /\ origin' = <<>>
    /\ UNCHANGED <<md, max_bytes, starts, records, lines, li, part, part_b,
                   files, manifest, wi, part_from>>

\* the origin of the chunk that a flush of the accumulator emits
CurOrigin == [rec_from |-> cur_from, rec_to |-> ri - 1, ln_from |-> 0, ln_to |-> 0]

\* the origin of the chunk that a flush of the part emits
PartOrigin == [rec_from |-> ri, rec_to |-> ri, ln_from |-> part_from, ln_to |-> li - 1]

\* for rec in records, rec_b > max_bytes: flush, then start the line loop
RecordOversized ==
    /\ pc = "rec"
    /\ UNCHANGED exportVars
    /\ steps' = steps + 1
    /\ ri <= Len(records)
    /\ IsOversized(utf8_len(records[ri]), max_bytes)
    /\ LET p == push_current(chunks, cur, cur_bytes)
       IN /\ chunks' = p.chunks
          /\ cur' = p.cur
          /\ cur_bytes' = p.cur_bytes
          /\ origin' = IF Len(p.chunks) > Len(chunks)
                       THEN Append(origin, CurOrigin) ELSE origin
    /\ lines' = SplitLines(records[ri])
    /\ part' = <<>>
    /\ part_b' = 0
    /\ li' = 1
    /\ part_from' = 1
    /\ pc' = "line"
    /\ UNCHANGED <<md, max_bytes, starts, records, ri, files, manifest, wi,
                   cur_from>>

\* variant: a line that does not fit is not consumed; the part is flushed
\* and the line is tried again
LineStep_Retry ==
    /\ pc = "line"
    /\ UNCHANGED exportVars
    /\ steps' = steps + 1
    /\ li <= Len(lines)
    /\ LET ln == lines[li]
           ln_b == utf8_len(ln)
           fits == part_b + ln_b <= max_bytes
           flush == ~fits /\ part # <<>>
       IN /\ chunks' = IF flush THEN Append(chunks, part) ELSE chunks
          /\ origin' = IF flush THEN Append(origin, PartOrigin) ELSE origin
          /\ part' = IF fits THEN part \o ln ELSE <<>>
          /\ part_b' = IF fits THEN part_b + ln_b ELSE 0
          /\ part_from' = IF flush THEN li ELSE part_from
          /\ li' = IF fits THEN li + 1 ELSE li
    /\ UNCHANGED <<md, max_bytes, starts, records, cur, cur_bytes, ri, lines,
                   files, manifest, wi, pc, cur_from>>

\* for ln in lines
LineStep ==
    /\ pc = "line"
    /\ UNCHANGED exportVars
    /\ steps' = steps + 1
    /\ li <= Len(lines)
    /\ LET ln == lines[li]
           ln_b == utf8_len(ln)
           flush == MustFlushPart(part, part_b, ln_b, max_bytes)
       IN /\ chunks' = IF flush THEN Append(chunks, part) ELSE chunks
          /\ origin' = IF flush THEN Append(origin, PartOrigin) ELSE origin
          /\ part' = (IF flush THEN <<>> ELSE part) \o ln
          /\ part_b' = (IF flush THEN 0 ELSE part_b) + ln_b
          /\ part_from' = IF flush THEN li ELSE part_from
    /\ li' = li + 1
    /\ UNCHANGED <<md, max_bytes, starts, records, cur, cur_bytes, ri, lines,
                   files, manifest, wi, pc, cur_from>>

\* after the line loop: "if part: chunks.append(part)"; continue
LinesDone ==
    /\ pc = "line"
    /\ UNCHANGED exportVars
    /\ steps' = steps + 1
    /\ li > Len(lines)
    /\ chunks' = IF part # <<>> THEN Append(chunks, part) ELSE chunks
    /\ origin' = IF part # <<>> THEN Append(origin, PartOrigin) ELSE origin
    /\ ri' = ri + 1
    /\ pc' = "rec"
    /\ UNCHANGED <<md, max_bytes, starts, records, cur, cur_bytes, lines, li,
                   part, part_b, files, manifest, wi, cur_from, part_from>>

\* for rec in records, rec_b <= max_bytes: flush if needed, then append
RecordNormal ==
    /\ pc = "rec"
    /\ UNCHANGED exportVars
    /\ steps' = steps + 1
    /\ ri <= Len(records)
    /\ ~IsOversized(utf8_len(records[ri]), max_bytes)
    /\ LET rec == records[ri]
           rec_b == utf8_len(rec)
           p == IF MustFlushCur(cur, cur_bytes, rec_b, max_bytes)
                THEN push_current(chunks, cur, cur_bytes)
                ELSE [chunks |-> chunks, cur |-> cur, cur_bytes |-> cur_bytes]
       IN /\ chunks' = p.chunks
          /\ origin' = IF Len(p.chunks) > Len(chunks)
                       THEN Append(origin, CurOrigin) ELSE origin
          /\ cur' = p.cur \o rec
          /\ cur_bytes' = p.cur_bytes + rec_b
          /\ cur_from' = IF p.cur = <<>> THEN ri ELSE cur_from
    /\ ri' = ri + 1
    /\ UNCHANGED <<md, max_bytes, starts, records, lines, li, part, part_b,
                   files, manifest, wi, pc, part_from>>

\* after the record loop: push_current(); return chunks
Return ==
    /\ pc = "rec"
    /\ UNCHANGED exportVars
    /\ steps' = steps + 1
    /\ ri > Len(records)
    /\ LET p == push_current(chunks, cur, cur_bytes)
       IN /\ chunks' = p.chunks
          /\ cur' = p.cur
          /\ cur_bytes' = p.cur_bytes
          /\ origin' = IF Len(p.chunks) > Len(chunks)
                       THEN Append(origin, CurOrigin) ELSE origin
    /\ pc' = "returned"
    /\ UNCHANGED <<md, max_bytes, starts, records, ri, lines, li, part, part_b,
                   files, manifest, wi, cur_from, part_from>>

\* main: for idx, content in enumerate(chunks, start=1): write the part
WritePart ==
    /\ pc = "returned"
    /\ UNCHANGED exportVars
    /\ UNCHANGED steps
    /\ wi <= Len(chunks)
    /\ LET content == NormalizeNewline(chunks[wi])
       IN /\ files' = Append(files, content)
          /\ manifest' = Append(manifest, utf8_len(content))
    /\ wi' = wi + 1
    /\ UNCHANGED <<md, max_bytes, starts, records, chunks, cur, cur_bytes, ri,
                   lines, li, part, part_b, pc, cur_from, part_from, origin>>

\* main: after the part loop
MainDone ==
    /\ pc = "returned"
    /\ UNCHANGED exportVars
    /\ UNCHANGED steps
    /\ wi > Len(chunks)
    /\ pc' = "done"
    /\ UNCHANGED <<md, max_bytes, starts, records, chunks, cur, cur_bytes, ri,
                   lines, li, part, part_b, files, manifest, wi, cur_from,
                   part_from, origin>>

ChunkerNext ==
    \/ EnterChunker
    \/ RecordOversized
    \/ LineStep
    \/ LinesDone
    \/ RecordNormal
    \/ Return

Next ==
    \/ SplitIntoRecords
    \/ ChunkerNext
    \/ WritePart
    \/ MainDone

\* main on a document
Spec == Init /\ [][Next]_vars

\* chunk_records_by_size on a record list
SpecRec == InitRec /\ [][ChunkerNext]_vars

(***************************************************************************)
(* export_telegram_topic.py: the message loop of main.                     *)
(*                                                                         *)
(* xpc: "iter" at the head of "async for msg in it", then the steps of the *)
(* try body that can raise: "sender" (get_sender_display), "preview"       *)
(* (db_get_preview), "media" (msg.download_media, inside its own try),     *)
(* "index" (db_put_preview), "jsonl" (jf.write), "md" (mf.write);          *)
(* "closed" after the loop, "crashed" when an exception leaves main.       *)
(* A line of messages.jsonl is [kind, id, download_error].                 *)
(***************************************************************************)
splitVars == <<md, max_bytes, starts, records, chunks, cur, cur_bytes, ri,
               lines, li, part, part_b, files, manifest, wi, pc,
               cur_from, part_from, origin, steps>>

\* the messages the iterator yields: ids 1, 2, ..., with or without media
MessageSeqs ==
    UNION {[1..n -> {[id |-> i, media |-> m] : i \in 1..n, m \in BOOLEAN}] :
             n \in 0..MaxMessages}

Messages == {ms \in MessageSeqs : \A i \in 1..Len(ms) : ms[i].id = i}

\* the splitter is not running
SplitOff ==
    /\ md = <<>> /\ max_bytes = 0 /\ starts = <<>> /\ records = <<>>
    /\ pc = "off"
    /\ chunks = <<>> /\ cur = <<>> /\ cur_bytes = 0 /\ ri = 1
    /\ lines = <<>> /\ li = 1 /\ part = <<>> /\ part_b = 0
    /\ files = <<>> /\ manifest = <<>> /\ wi = 1
    /\ cur_from = 0 /\ part_from = 0 /\ origin = <<>> /\ steps = 0

\* main before "async for msg in it": the output files are open and empty
\* (no topic root message is exported)
InitExport ==
    /\ SplitOff
    /\ download_media \in BOOLEAN
    /\ messages \in Messages
    /\ xi = 0
    /\ xpc = "iter"
    /\ media_err = FALSE
    /\ index = {}
    /\ jsonl = <<>>
    /\ md_out = <<>>
    /\ exported = 0

\* the two except clauses of the loop body: FloodWaitError sleeps and writes
\* nothing; any other Exception writes an "_error" line with the id
on_exception(out, id, exc) ==
    IF exc = "FloodWaitError"
    THEN out
    ELSE Append(out, [kind |-> "_error", id |-> id, download_error |-> FALSE])

\* an exception raised in the try body: its except clause runs, then the
\* loop goes on with the next message
Raise(exc) ==
    /\ jsonl' = on_exception(jsonl, messages[xi].id, exc)
    /\ xpc' = "iter"
    /\ UNCHANGED <<download_media, messages, xi, media_err, index, md_out,
                   exported>>

\* async for msg in it: the next message
IterNext ==
    /\ xpc = "iter"
    /\ xi < Len(messages)
    /\ xi' = xi + 1
    /\ media_err' = FALSE
    /\ xpc' = "sender"
    /\ UNCHANGED <<download_media, messages, index, jsonl, md_out, exported>>
    /\ UNCHANGED splitVars

\* the iterator is exhausted: jf.close(), mf.close(), con.close()
IterEnd ==
    /\ xpc = "iter"
    /\ xi = Len(messages)
    /\ xpc' = "closed"
    /\ UNCHANGED <<download_media, messages, xi, media_err, index, jsonl,
                   md_out, exported>>
    /\ UNCHANGED splitVars

\* sender_info = await get_sender_display(...): a network call, which can
\* raise FloodWaitError or another error
SenderLookup ==
    /\ xpc = "sender"
    /\ \E o \in {"ok", "FloodWaitError", "Exception"} :
          IF o = "ok"
          THEN /\ xpc' = "preview"
               /\ UNCHANGED <<download_media, messages, xi, media_err, index,
                              jsonl, md_out, exported>>
          ELSE Raise(o)
    /\ UNCHANGED splitVars

\* reply_preview = db_get_preview(con, reply_to_msg_id)
ReplyPreview ==
    /\ xpc = "preview"
    /\ \E o \in {"ok", "Exception"} :
          IF o = "ok"
          THEN /\ xpc' = IF messages[xi].media /\ download_media
                         THEN "media" ELSE "index"
               /\ UNCHANGED <<download_media, messages, xi, media_err, index,
                              jsonl, md_out, exported>>
          ELSE Raise(o)
    /\ UNCHANGED splitVars

\* saved = await msg.download_media(...), in its own try: every Exception,
\* FloodWaitError included, becomes rec["media"]["download_error"]
MediaDownload ==
    /\ xpc = "media"
    /\ \E o \in {"ok", "FloodWaitError", "Exception"} : media_err' = (o # "ok")
    /\ xpc' = "index"
    /\ UNCHANGED <<download_media, messages, xi, index, jsonl, md_out, exported>>
    /\ UNCHANGED splitVars

\* db_put_preview(con, msg.id, ...)
IndexWrite ==
    /\ xpc = "index"
    /\ \E o \in {"ok", "Exception"} :
          IF o = "ok"
          THEN /\ index' = index \cup {messages[xi].id}
               /\ xpc' = "jsonl"
               /\ UNCHANGED <<download_media, messages, xi, media_err, jsonl,
                              md_out, exported>>
          ELSE Raise(o)
    /\ UNCHANGED splitVars

\* jf.write(json.dumps(rec) + "\n"); when it raises, the except clause
\* writes to jf again, and that write succeeds ("Exception") or raises too
\* and leaves main ("Fatal")
JsonlWrite ==
    /\ xpc = "jsonl"
    /\ \E o \in {"ok", "Exception", "Fatal"} :
          CASE o = "ok" ->
                 /\ jsonl' = Append(jsonl, [kind |-> "record", id |-> messages[xi].id,
                                            download_error |-> media_err])
                 /\ xpc' = "md"
                 /\ UNCHANGED <<download_media, messages, xi, media_err, index,
                                md_out, exported>>
            [] o = "Exception" -> Raise(o)
            [] OTHER ->
                 /\ xpc' = "crashed"
                 /\ UNCHANGED <<download_media, messages, xi, media_err, index,
                                jsonl, md_out, exported>>
    /\ UNCHANGED splitVars

\* mf.write(render_md_block(rec)); exported += 1
MdWrite ==
    /\ xpc = "md"
    /\ \E o \in {"ok", "Exception"} :
          IF o = "ok"
          THEN /\ md_out' = Append(md_out, messages[xi].id)
               /\ exported' = exported + 1
               /\ xpc' = "iter"
               /\ UNCHANGED <<download_media, messages, xi, media_err, index,
                              jsonl>>
          ELSE Raise(o)
    /\ UNCHANGED splitVars

ExportNext ==
    \/ IterNext
    \/ IterEnd
    \/ SenderLookup
    \/ ReplyPreview
    \/ MediaDownload
    \/ IndexWrite
    \/ JsonlWrite
    \/ MdWrite

\* the message loop of the exporter
SpecExport == InitExport /\ [][ExportNext]_vars

(***************************************************************************)
(* Properties.                                                             *)
(***************************************************************************)
Returned == pc \in {"returned", "done"}

ChunkIdx == 1..Len(chunks)

\* chunks[k] was built from whole records / from lines of one record
FromRecords(k) == origin[k].ln_from = 0
FromLines(k) == origin[k].ln_from > 0

\* the lines of the record that chunks[k] was cut from
LinesOf(k) == SplitLines(records[origin[k].rec_from])

\* the chunks cut from the lines of records[r]
SubChunksOf(r) == {k \in ChunkIdx : FromLines(k) /\ origin[k].rec_from = r}

OversizedRecs == {r \in 1..Len(records) : utf8_len(records[r]) > max_bytes}

\* chunks[k] is exactly one line, and that line alone exceeds the budget
IsLoneLongLine(k) ==
    /\ FromLines(k)
    /\ origin[k].ln_from = origin[k].ln_to
    /\ origin[k].rec_from \in OversizedRecs
    /\ chunks[k] = LinesOf(k)[origin[k].ln_from]
    /\ utf8_len(LinesOf(k)[origin[k].ln_from]) > max_bytes

\* C1: once chunk_records_by_size has returned in main, the concatenation
\* of the chunks, in emission order, equals the document (round trip of
\* split_into_records followed by chunk_records_by_size)
C1_RoundTrip == Returned => Concat(chunks) = md

\* C2: every chunk emitted so far has UTF-8 length <= max_bytes, except a
\* chunk that is exactly one line of an oversized record, that line alone
\* being longer than max_bytes
C2_BudgetRespect ==
    \A k \in ChunkIdx : utf8_len(chunks[k]) <= max_bytes \/ IsLoneLongLine(k)

C2_Witness ==
    /\ Returned
    /\ \E k \in ChunkIdx : utf8_len(chunks[k]) > max_bytes
    /\ \E k \in ChunkIdx : FromLines(k) /\ utf8_len(chunks[k]) <= max_bytes
    /\ \E k \in ChunkIdx : FromRecords(k) /\ origin[k].rec_to > origin[k].rec_from

\* C3: when chunk_records_by_size returns, the concatenation of its chunks
\* equals the concatenation of the input records, in order: nothing is
\* dropped, duplicated or reordered
C3_OrderPreserved == Returned => Concat(chunks) = Concat(records)

C3_Witness ==
    /\ Returned
    /\ Len(records) >= 3
    /\ Len(chunks) >= 3
    /\ \E k \in ChunkIdx : FromLines(k)
    /\ \E k \in ChunkIdx : FromRecords(k)

\* chunk j comes before chunk k in the record list
Precedes(j, k) ==
    \/ origin[j].rec_to < origin[k].rec_from
    \/ /\ FromLines(j) /\ FromLines(k)
       /\ origin[j].rec_from = origin[k].rec_from
       /\ origin[j].ln_to < origin[k].ln_from

\* C4: every chunk is either the concatenation of consecutive whole records
\* that each fit the budget, or the concatenation of consecutive whole lines
\* of one oversized record; the chunks cover disjoint, increasing ranges, so
\* no fitting record is split and no chunk mixes lines of an oversized
\* record with another record
C4_RecordBoundaries ==
    /\ Len(origin) = Len(chunks)
    /\ \A k \in ChunkIdx :
          LET o == origin[k]
          IN /\ 1 <= o.rec_from /\ o.rec_from <= o.rec_to /\ o.rec_to <= Len(records)
             /\ FromRecords(k) =>
                   /\ chunks[k] = Concat(SubSeq(records, o.rec_from, o.rec_to))
                   /\ \A r \in o.rec_from..o.rec_to : utf8_len(records[r]) <= max_bytes
             /\ FromLines(k) =>
                   /\ o.rec_from = o.rec_to
                   /\ o.rec_from \in OversizedRecs
                   /\ o.ln_from <= o.ln_to /\ o.ln_to <= Len(LinesOf(k))
                   /\ chunks[k] = Concat(SubSeq(LinesOf(k), o.ln_from, o.ln_to))
    /\ \A j, k \in ChunkIdx : j < k => Precedes(j, k)

C4_Witness ==
    /\ Returned
    /\ \E k \in ChunkIdx : FromRecords(k) /\ origin[k].rec_to > origin[k].rec_from
    /\ \E k \in ChunkIdx : FromLines(k) /\ origin[k].ln_to > origin[k].ln_from
    /\ \E j, k \in ChunkIdx : FromLines(j) /\ FromRecords(k) /\ j < k

\* C5, as stated: a record-header marker at offset p: the line "---" followed
\* by a line that begins with "id:" and a whitespace character
HeaderAt(s, p) ==
    /\ p = 0 \/ At(s, p - 1) = NL
    /\ StartsWithAt(s, p, DELIM)
    /\ p + 7 < Len(s)
    /\ Slice(s, p + 4, p + 7) = IDFIELD
    /\ At(s, p + 7) \in Whitespace

\* number of consecutive "\n" that end right before offset p
RECURSIVE NewlinesBefore(_, _)
NewlinesBefore(s, p) ==
    IF p > 0 /\ At(s, p - 1) = NL THEN 1 + NewlinesBefore(s, p - 1) ELSE 0

\* number of consecutive blank (empty) lines right before offset p: of the
\* newlines before p, the first one ends the preceding non-empty line,
\* unless the run starts the document
BlankLinesBefore(s, p) ==
    LET r == NewlinesBefore(s, p)
    IN IF r = p THEN r ELSE r - 1

Offsets(s) == 0..Len(s)

StartsByBlankLines(s) ==
    {p \in Offsets(s) : HeaderAt(s, p) /\ (p = 0 \/ BlankLinesBefore(s, p) >= 2)}

StartsByNewlines(s) ==
    {p \in Offsets(s) : HeaderAt(s, p) /\ (p = 0 \/ NewlinesBefore(s, p) >= 2)}

\* C5 (as stated): find_record_starts returns exactly offset 0 when the
\* document opens with a header marker, and every header marker that follows
\* a run of two or more consecutive blank lines
C5_BlankLines == pc # "main" => starts = SortedOfSet(StartsByBlankLines(md))

\* C5 (amended): find_record_starts returns, in increasing order, exactly
\* offset 0 when the document opens with a header marker, and every header
\* marker that follows a run of two or more consecutive newline characters
\* (one blank line is enough)
C5_Newlines == pc # "main" => starts = SortedOfSet(StartsByNewlines(md))

C5_Witness ==
    /\ pc # "main"
    /\ Len(starts) = 2
    /\ starts[1] = 0
    /\ NewlinesBefore(md, starts[2]) = 2
    /\ BlankLinesBefore(md, starts[2]) = 1

\* the chunk list tiles the records: consecutive chunks cover consecutive
\* runs of records
Contiguous ==
    /\ \A k \in ChunkIdx : FromRecords(k)
    /\ \A k \in ChunkIdx : k < Len(chunks) => origin[k + 1].rec_from = origin[k].rec_to + 1
    /\ chunks # <<>> =>
          /\ \A r \in 1..(origin[1].rec_from - 1) : records[r] = <<>>
          /\ origin[Len(chunks)].rec_to = Len(records)

\* C6: when every record fits the budget, the returned chunks are the
\* left-to-right greedy packing: each chunk is a run of whole records that
\* fits the budget, runs follow one another, and a chunk plus the first
\* record of the next chunk exceeds the budget
C6_GreedyPacking ==
    (Returned /\ OversizedRecs = {}) =>
        /\ Contiguous
        /\ \A k \in ChunkIdx :
              /\ chunks[k] = Concat(SubSeq(records, origin[k].rec_from, origin[k].rec_to))
              /\ utf8_len(chunks[k]) <= max_bytes
              /\ k < Len(chunks) =>
                    utf8_len(chunks[k]) + utf8_len(records[origin[k + 1].rec_from])
                        > max_bytes

C6_Witness ==
    /\ Returned
    /\ OversizedRecs = {}
    /\ Len(records) = 3
    /\ Len(chunks) = 2
    /\ origin[1].rec_to = 2
    /\ utf8_len(chunks[1]) < max_bytes

\* each sub-chunk of records[r] fits the budget unless it is one line that
\* alone exceeds it
SubChunksFit(r) ==
    \A k \in SubChunksOf(r) : utf8_len(chunks[k]) <= max_bytes \/ IsLoneLongLine(k)

\* C7 (as stated): every record larger than the budget is split into at
\* least two sub-chunks, each within the budget unless it is a single line
\* that exceeds the budget alone
C7_AtLeastTwo ==
    Returned =>
        \A r \in OversizedRecs : Cardinality(SubChunksOf(r)) >= 2 /\ SubChunksFit(r)

\* C7 (amended): a record larger than the budget is split, at line
\* boundaries, into at least two sub-chunks when it has at least two lines,
\* into exactly one (over-budget) chunk when it is a single line, and into
\* none when it is empty; each sub-chunk is within the budget unless it is a
\* single line that exceeds the budget alone
C7_SplitByLines ==
    Returned =>
        \A r \in OversizedRecs :
            LET n == Len(SplitLines(records[r]))
                c == Cardinality(SubChunksOf(r))
            IN /\ n >= 2 => c >= 2
               /\ n = 1 => c = 1
               /\ n = 0 => c = 0
               /\ c <= n
               /\ SubChunksFit(r)

C7_Witness ==
    /\ Returned
    /\ \E r \in OversizedRecs :
          /\ Len(SplitLines(records[r])) >= 3
          /\ Cardinality(SubChunksOf(r)) = 2
    /\ \E r \in OversizedRecs :
          /\ Len(SplitLines(records[r])) = 1
          /\ Cardinality(SubChunksOf(r)) = 1

\* C8 (as stated): a document without record starts is one record, the
\* whole document, and gives exactly one chunk when it fits the budget
C8_OneChunk ==
    (pc \notin {"main", "call"} /\ starts = <<>>) =>
        /\ records = <<md>>
        /\ (Returned /\ utf8_len(md) <= max_bytes) => Len(chunks) = 1

\* C8 (amended): a document without record starts is one record, the whole
\* document; when it fits the budget it gives exactly one chunk, the
\* document itself, if it is not empty, and no chunk if it is empty
C8_OneChunkUnlessEmpty ==
    (pc \notin {"main", "call"} /\ starts = <<>>) =>
        /\ records = <<md>>
        /\ (Returned /\ utf8_len(md) <= max_bytes) =>
              chunks = IF md = <<>> THEN <<>> ELSE <<md>>

C8_Witness ==
    /\ Returned
    /\ starts = <<>>
    /\ chunks = <<md>>
    /\ \E p \in Offsets(md) : StartsWithAt(md, p, DELIM)
    /\ max_bytes = utf8_len(md)

\* an upper bound of the number of steps of chunk_records_by_size: its
\* entry, its return, and for each record the entry of the line loop, one
\* step per line and the end of the line loop
RECURSIVE StepsFrom(_)
StepsFrom(r) ==
    IF r > Len(records) THEN 0 ELSE Len(records[r]) + 2 + StepsFrom(r + 1)

StepBound == 2 + StepsFrom(1)

\* C9: chunk_records_by_size always terminates and never fails, for every
\* budget, also zero, negative or smaller than a line: until it has
\* returned its chunk list a next step is possible, it takes no more steps
\* than the size of its input allows, and its control state is one of the
\* function's own
C9_Terminates ==
    /\ steps <= StepBound
    /\ pc \in {"call", "rec", "line", "returned"}
    /\ pc # "returned" => ENABLED ChunkerNext
    /\ pc = "returned" => Len(chunks) = Len(origin) /\ cur = <<>>

C9_Witness ==
    /\ pc = "returned"
    /\ max_bytes <= 0
    /\ Len(records) >= 2
    /\ \E k \in ChunkIdx : IsLoneLongLine(k)
    /\ Len(chunks) >= 3

FileIdx == 1..Len(files)

\* C10 (as stated): every part file written ends with a single trailing
\* newline: with a newline, and not with two
C10_SingleNewline ==
    \A k \in FileIdx :
        /\ EndsWithNL(files[k])
        /\ ~EndsWithNL(SubSeq(files[k], 1, Len(files[k]) - 1))

\* C10 (amended): every part file written ends with at least one newline:
\* it is the chunk itself when the chunk ends with a newline (however many),
\* and the chunk followed by one newline otherwise; one file per chunk
C10_EndsWithNewline ==
    /\ \A k \in FileIdx :
          /\ EndsWithNL(files[k])
          /\ \/ files[k] = chunks[k]
             \/ ~EndsWithNL(chunks[k]) /\ files[k] = Append(chunks[k], NL)
    /\ Len(files) = wi - 1
    /\ pc = "done" => Len(files) = Len(chunks)

C10_Witness ==
    /\ pc = "done"
    /\ \E k \in FileIdx : files[k] # chunks[k]
    /\ \E k \in FileIdx : files[k] = chunks[k] /\ Len(files[k]) >= 2
                          /\ files[k][Len(files[k]) - 1] = NL

\* C11: for every chunk that fits the budget, the part file written for it
\* (the chunk after the trailing-newline normalization), and so the "bytes"
\* value recorded for it in the manifest, is within max_bytes too
C11_PartsBounded ==
    \A k \in FileIdx :
        utf8_len(chunks[k]) <= max_bytes =>
            /\ utf8_len(files[k]) <= max_bytes
            /\ manifest[k] <= max_bytes

\* the lines of messages.jsonl that carry the id of messages[i]
LinesOfMessage(i) == {k \in 1..Len(jsonl) : jsonl[k].id = messages[i].id}

\* C12: every message the iterator has yielded and the loop body is done
\* with has exactly one line in messages.jsonl, its record or an "_error"
\* entry with its id, whatever was raised (FloodWaitError included), and
\* the loop goes on with the next message
C12_OneLinePerMessage ==
    /\ xpc # "crashed"
    /\ xpc \in {"iter", "closed"} =>
          \A i \in 1..xi :
              /\ Cardinality(LinesOfMessage(i)) = 1
              /\ \A k \in LinesOfMessage(i) : jsonl[k].kind \in {"record", "_error"}

====
